---- MODULE Spec2Model ----
(***************************************************************************)
(* A model of css-explore (src/css_explore.py): the format_css pipeline    *)
(* (one-time nodeenv setup, the parser collaborator, construction of the   *)
(* typed node tree from the parser's generic nodes, value normalization,   *)
(* rendering).                                                             *)
(*                                                                         *)
(* Text is a sequence of one-character strings, so that every regular      *)
(* expression of the source is modelled by what it does to the characters. *)
(***************************************************************************)
EXTENDS Integers, Sequences, FiniteSets, TLC

VARIABLES
    pc,         \* position of the format_css call: idle, called, required,
                \* parsed, built, done, failed
    settings,   \* the Settings of the call in progress
    installed,  \* whether the file NENV_PATH/installed exists
    nenv,       \* what the install commands have put under NENV_PATH
    installs,   \* install commands run by the call in progress
    proc,       \* the parser process: returncode, out, err
    sheet,      \* json.loads(out)['stylesheet']['rules']
    rules,      \* the tuple of typed nodes built from sheet
    result,     \* the value returned by format_css
    error       \* the exception raised by format_css

vars == <<pc, settings, installed, nenv, installs, proc, sheet, rules, result, error>>

----------------------------------------------------------------------------
(* Characters and text *)

Chars(str) == [i \in 1..Len(str) |-> SubSeq(str, i, i)]

\* The printable ASCII characters in code point order, from U+0020 to U+007E.
\* (U+0060, which a TLA+ string cannot hold, is written "u96".)
Printable ==
    Chars(" !\"#$%&'()*+,-./0123456789:;<=>?@ABCDEFGHIJKLMNOPQRSTUVWXYZ[\\]^_")
    \o <<"u96">> \o Chars("abcdefghijklmnopqrstuvwxyz{|}~")

\* ord(c): the code point of a character.  A character outside ASCII is
\* written "u<code point>".
Ord(c) ==
    IF c = "\t" THEN 9
    ELSE IF c = "\n" THEN 10
    ELSE IF \E i \in 1..Len(Printable) : Printable[i] = c
         THEN 31 + (CHOOSE i \in 1..Len(Printable) : Printable[i] = c)
    ELSE 128

\* chr(n): the character at a code point.
Chr(n) ==
    IF n = 9 THEN "\t"
    ELSE IF n = 10 THEN "\n"
    ELSE IF n >= 32 /\ n <= 126 THEN Printable[n - 31]
    ELSE "u" \o ToString(n)

Digits == {"0", "1", "2", "3", "4", "5", "6", "7", "8", "9"}
HexLetters == {"a", "b", "c", "d", "e", "f", "A", "B", "C", "D", "E", "F"}
Letters == {Printable[i] : i \in 34..59} \cup {Printable[i] : i \in 66..91}

\* \d of the re module
IsDigit(c) == c \in Digits
\* HEXDIGIT, [0-9a-fA-F]
IsHex(c) == c \in Digits \cup HexLetters
\* \s of the re module
IsSpace(c) == c \in {" ", "\t", "\n"}
\* \w of the re module
IsWord(c) == c \in Digits \cup Letters \cup {"_"}

\* int(h, 16) of one hex digit
HexVal(c) ==
    IF c \in Digits THEN Ord(c) - 48
    ELSE IF c \in {"a", "b", "c", "d", "e", "f"} THEN Ord(c) - 87
    ELSE Ord(c) - 55

\* Whether text p occurs in s at position i.
At(s, i, p) == i + Len(p) - 1 <= Len(s) /\ SubSeq(s, i, i + Len(p) - 1) = p

\* The first position from i on whose character is not whitespace (\s*).
RECURSIVE SkipSpace(_, _)
SkipSpace(s, i) == IF i <= Len(s) /\ IsSpace(s[i]) THEN SkipSpace(s, i + 1) ELSE i

\* The first position from i on whose character is not a digit (\d*).
RECURSIVE SkipDigits(_, _)
SkipDigits(s, i) == IF i <= Len(s) /\ IsDigit(s[i]) THEN SkipDigits(s, i + 1) ELSE i

\* ''.join(texts)
RECURSIVE Concat(_)
Concat(texts) == IF texts = <<>> THEN <<>> ELSE Head(texts) \o Concat(Tail(texts))

\* sep.join(texts)
RECURSIVE Join(_, _)
Join(sep, texts) ==
    IF texts = <<>> THEN <<>>
    ELSE IF Len(texts) = 1 THEN texts[1]
    ELSE texts[1] \o sep \o Join(sep, Tail(texts))

\* str.__lt__: comparison of two texts by code point
RECURSIVE TextLess(_, _)
TextLess(a, b) ==
    IF b = <<>> THEN FALSE
    ELSE IF a = <<>> THEN TRUE
    ELSE IF Ord(a[1]) # Ord(b[1]) THEN Ord(a[1]) < Ord(b[1])
    ELSE TextLess(Tail(a), Tail(b))

\* Insertion of x into a sorted list, after the elements equal to it.
RECURSIVE Insert(_, _)
Insert(x, sorted) ==
    IF sorted = <<>> THEN <<x>>
    ELSE IF TextLess(x, sorted[1]) THEN <<x>> \o sorted
    ELSE <<sorted[1]>> \o Insert(x, Tail(sorted))

\* sorted(texts)
RECURSIVE Sorted(_)
Sorted(texts) ==
    IF texts = <<>> THEN <<>>
    ELSE Insert(texts[Len(texts)], Sorted(SubSeq(texts, 1, Len(texts) - 1)))

\* The position of the first "\n" of text from i on, Len(text) + 1 when there
\* is none.
LineEnd(text, i) ==
    IF \E j \in i..Len(text) : text[j] = "\n"
    THEN CHOOSE j \in i..Len(text) :
             text[j] = "\n" /\ \A k \in i..(j - 1) : text[k] # "\n"
    ELSE Len(text) + 1

\* text.splitlines(), for the line boundary "\n": the lines from i on
RECURSIVE SplitLinesFrom(_, _)
SplitLinesFrom(text, i) ==
    IF i > Len(text) THEN <<>>
    ELSE <<SubSeq(text, i, LineEnd(text, i) - 1)>>
         \o SplitLinesFrom(text, LineEnd(text, i) + 1)

SplitLines(text) == SplitLinesFrom(text, 1)

\* An indent that prefixes the first line only.
indent_first_line(text) ==
    Chars("    ") \o Join(<<"\n">>, SplitLines(text)) \o <<"\n">>

\* indent(text)
indent(text) ==
    LET lines == SplitLines(text)
    IN  Join(<<"\n">>, [i \in 1..Len(lines) |-> Chars("    ") \o lines[i]]) \o <<"\n">>

----------------------------------------------------------------------------
(* The value normalizer: each regular expression substitution of the source *)
(* scans the text from the left and replaces the non-overlapping matches.   *)

\* COLOR_RE matches at i: '#' and three doubled hex digits.
ColorMatch(s, i) ==
    /\ i + 6 <= Len(s)
    /\ s[i] = "#"
    /\ IsHex(s[i + 1]) /\ s[i + 2] = s[i + 1]
    /\ IsHex(s[i + 3]) /\ s[i + 4] = s[i + 3]
    /\ IsHex(s[i + 5]) /\ s[i + 6] = s[i + 5]

\* COLOR_RE.sub(COLOR_RE_SUB, value)
RECURSIVE ColorSubFrom(_, _)
ColorSubFrom(s, i) ==
    IF i > Len(s) THEN <<>>
    ELSE IF ColorMatch(s, i)
         THEN <<"#", s[i + 1], s[i + 3], s[i + 5]>> \o ColorSubFrom(s, i + 7)
    ELSE <<s[i]>> \o ColorSubFrom(s, i + 1)

ColorSub(value) == ColorSubFrom(value, 1)

\* COMMA_RE.sub(COMMA_RE_SUB, value)
RECURSIVE CommaSubFrom(_, _)
CommaSubFrom(s, i) ==
    IF i > Len(s) THEN <<>>
    ELSE IF s[i] = "," THEN <<",", " ">> \o CommaSubFrom(s, SkipSpace(s, i + 1))
    ELSE <<s[i]>> \o CommaSubFrom(s, i + 1)

CommaSub(value) == CommaSubFrom(value, 1)

\* FLOAT_RE matches at i: a '.' not preceded by a digit, followed by digits.
FloatMatch(s, i) ==
    /\ s[i] = "."
    /\ i = 1 \/ ~IsDigit(s[i - 1])
    /\ i + 1 <= Len(s) /\ IsDigit(s[i + 1])

\* FLOAT_RE.sub(FLOAT_RE_SUB, value)
RECURSIVE FloatSubFrom(_, _)
FloatSubFrom(s, i) ==
    IF i > Len(s) THEN <<>>
    ELSE IF FloatMatch(s, i)
         THEN LET j == SkipDigits(s, i + 1)
              IN  <<"0">> \o SubSeq(s, i, j - 1) \o FloatSubFrom(s, j)
    ELSE <<s[i]>> \o FloatSubFrom(s, i + 1)

FloatSub(value) == FloatSubFrom(value, 1)

\* The first position from i on whose character is not '0' (0+).
RECURSIVE SkipZeros(_, _)
SkipZeros(s, i) == IF i <= Len(s) /\ s[i] = "0" THEN SkipZeros(s, i + 1) ELSE i

\* POINT_ZERO_RE matches at i: a digit, '.', zeros, 'px'.
PointZeroMatch(s, i) ==
    /\ i + 4 <= Len(s)
    /\ IsDigit(s[i]) /\ s[i + 1] = "." /\ s[i + 2] = "0"
    /\ At(s, SkipZeros(s, i + 2), <<"p", "x">>)

\* POINT_ZERO_RE.sub(POINT_ZERO_SUB, value)
RECURSIVE PointZeroSubFrom(_, _)
PointZeroSubFrom(s, i) ==
    IF i > Len(s) THEN <<>>
    ELSE IF PointZeroMatch(s, i)
         THEN <<s[i], "p", "x">> \o PointZeroSubFrom(s, SkipZeros(s, i + 2) + 2)
    ELSE <<s[i]>> \o PointZeroSubFrom(s, i + 1)

PointZeroSub(value) == PointZeroSubFrom(value, 1)

\* The first position from i on whose character is a quote of either kind
\* ([^'"]*).
RECURSIVE SkipUnquoted(_, _)
SkipUnquoted(s, i) ==
    IF i <= Len(s) /\ s[i] \notin {"'", "\""} THEN SkipUnquoted(s, i + 1) ELSE i

\* QUOTE_RE matches at i: a double-quoted string holding no quote.
QuoteMatch(s, i) ==
    /\ s[i] = "\""
    /\ SkipUnquoted(s, i + 1) <= Len(s)
    /\ s[SkipUnquoted(s, i + 1)] = "\""

\* QUOTE_RE.sub(QUOTE_RE_SUB, value)
RECURSIVE QuoteSubFrom(_, _)
QuoteSubFrom(s, i) ==
    IF i > Len(s) THEN <<>>
    ELSE IF QuoteMatch(s, i)
         THEN LET j == SkipUnquoted(s, i + 1)
              IN  <<"'">> \o SubSeq(s, i + 1, j - 1) \o <<"'">> \o QuoteSubFrom(s, j + 1)
    ELSE <<s[i]>> \o QuoteSubFrom(s, i + 1)

QuoteSub(value) == QuoteSubFrom(value, 1)

\* NUM, (\d*(?:\.\d*)?), matched at i: the position after it.
NumEnd(s, i) ==
    LET j == SkipDigits(s, i)
    IN  IF j <= Len(s) /\ s[j] = "." THEN SkipDigits(s, j + 1) ELSE j

\* ',\s*' matched at i: the position after it, 0 when there is no comma.
CommaEnd(s, i) == IF i <= Len(s) /\ s[i] = "," THEN SkipSpace(s, i + 1) ELSE 0

\* The groups k to 4 of RGBA_RE matched at i, each followed by ',\s*' and the
\* last one by ')': the positions <<start, end>> of each, or <<>> when they
\* do not match.
RECURSIVE RgbaGroups(_, _, _)
RgbaGroups(s, i, k) ==
    IF k = 4
    THEN (IF NumEnd(s, i) <= Len(s) /\ s[NumEnd(s, i)] = ")"
          THEN <<i, NumEnd(s, i)>> ELSE <<>>)
    ELSE IF CommaEnd(s, NumEnd(s, i)) = 0 THEN <<>>
    ELSE IF RgbaGroups(s, CommaEnd(s, NumEnd(s, i)), k + 1) = <<>> THEN <<>>
    ELSE <<i, NumEnd(s, i)>> \o RgbaGroups(s, CommaEnd(s, NumEnd(s, i)), k + 1)

\* RGBA_RE matched at i: the positions of its four groups, or <<>>.
RgbaMatch(s, i) ==
    IF At(s, i, Chars("rgba(")) THEN RgbaGroups(s, i + 5, 1) ELSE <<>>

\* RGBA_RE_SUB, for the match with groups m
RgbaReplacement(s, m) ==
    Chars("rgba(") \o SubSeq(s, m[1], m[2] - 1) \o Chars(", ")
    \o SubSeq(s, m[3], m[4] - 1) \o Chars(", ")
    \o SubSeq(s, m[5], m[6] - 1) \o Chars(", ")
    \o SubSeq(s, m[7], m[8] - 1) \o Chars(")")

\* RGBA_RE.sub(RGBA_RE_SUB, value)
RECURSIVE RgbaSubFrom(_, _)
RgbaSubFrom(s, i) ==
    IF i > Len(s) THEN <<>>
    ELSE IF RgbaMatch(s, i) # <<>>
         THEN RgbaReplacement(s, RgbaMatch(s, i))
              \o RgbaSubFrom(s, RgbaMatch(s, i)[8] + 1)
    ELSE <<s[i]>> \o RgbaSubFrom(s, i + 1)

RgbaSub(value) == RgbaSubFrom(value, 1)

\* COLORS_TO_SHORT_COLORS
COLORS_TO_SHORT_COLORS ==
    << <<Chars("black"), Chars("#000")>>, <<Chars("white"), Chars("#fff")>> >>

\* r'\b{}\b'.format(color) matches at i: the word, between word boundaries.
WordMatch(s, i, color) ==
    /\ At(s, i, color)
    /\ i = 1 \/ ~IsWord(s[i - 1])
    /\ i + Len(color) > Len(s) \/ ~IsWord(s[i + Len(color)])

\* re.sub(COLOR_TO_SHORT_RE_PATTERN.format(color), replace, value)
RECURSIVE WordSubFrom(_, _, _, _)
WordSubFrom(s, i, color, replace) ==
    IF i > Len(s) THEN <<>>
    ELSE IF WordMatch(s, i, color)
         THEN replace \o WordSubFrom(s, i + Len(color), color, replace)
    ELSE <<s[i]>> \o WordSubFrom(s, i + 1, color, replace)

\* The loop over COLORS_TO_SHORT_COLORS.
RECURSIVE ShortColorsSub(_, _)
ShortColorsSub(value, k) ==
    IF k > Len(COLORS_TO_SHORT_COLORS) THEN value
    ELSE ShortColorsSub(
             WordSubFrom(value, 1, COLORS_TO_SHORT_COLORS[k][1],
                         COLORS_TO_SHORT_COLORS[k][2]),
             k + 1)

\* SLASH_RE.sub(SLASH_RE_SUB, value): '\s*/\s*' becomes ' / '
RECURSIVE SlashSubFrom(_, _)
SlashSubFrom(s, i) ==
    IF i > Len(s) THEN <<>>
    ELSE LET j == SkipSpace(s, i)
         IN  IF j <= Len(s) /\ s[j] = "/"
             THEN Chars(" / ") \o SlashSubFrom(s, SkipSpace(s, j + 1))
             ELSE <<s[i]>> \o SlashSubFrom(s, i + 1)

SlashSub(value) == SlashSubFrom(value, 1)

\* RELATION_RE.sub(RELATION_RE_SUB, selector): '\s*([+>])\s*' becomes ' \1 '
RECURSIVE RelationSubFrom(_, _)
RelationSubFrom(s, i) ==
    IF i > Len(s) THEN <<>>
    ELSE LET j == SkipSpace(s, i)
         IN  IF j <= Len(s) /\ s[j] \in {"+", ">"}
             THEN <<" ", s[j], " ">> \o RelationSubFrom(s, SkipSpace(s, j + 1))
             ELSE <<s[i]>> \o RelationSubFrom(s, i + 1)

RelationSub(selector) == RelationSubFrom(selector, 1)

\* The first position from i on whose character is not ' ' ([ ]+).
RECURSIVE SkipBlanks(_, _)
SkipBlanks(s, i) == IF i <= Len(s) /\ s[i] = " " THEN SkipBlanks(s, i + 1) ELSE i

\* SPACES_RE.sub(SPACES_RE_SUB, value)
RECURSIVE SpacesSubFrom(_, _)
SpacesSubFrom(s, i) ==
    IF i > Len(s) THEN <<>>
    ELSE IF s[i] = " " THEN <<" ">> \o SpacesSubFrom(s, SkipBlanks(s, i))
    ELSE <<s[i]>> \o SpacesSubFrom(s, i + 1)

SpacesSub(value) == SpacesSubFrom(value, 1)

\* UNICODE_ESC_RE matches at i: a backslash and four hex digits.
EscMatch(s, i) ==
    /\ i + 4 <= Len(s)
    /\ s[i] = "\\"
    /\ \A k \in 1..4 : IsHex(s[i + k])

\* UNICODE_ESC_RE.findall(value): the matches, trailing whitespace included
RECURSIVE EscFindAllFrom(_, _)
EscFindAllFrom(s, i) ==
    IF i > Len(s) THEN <<>>
    ELSE IF EscMatch(s, i)
         THEN LET j == SkipSpace(s, i + 5)
              IN  <<SubSeq(s, i, j - 1)>> \o EscFindAllFrom(s, j)
    ELSE EscFindAllFrom(s, i + 1)

\* chr(int(match[1:].rstrip(), 16))
EscChar(match) ==
    Chr(4096 * HexVal(match[2]) + 256 * HexVal(match[3])
        + 16 * HexVal(match[4]) + HexVal(match[5]))

\* value.replace(old, new): every non-overlapping occurrence, from the left
RECURSIVE ReplaceFrom(_, _, _, _)
ReplaceFrom(s, i, old, new) ==
    IF i > Len(s) THEN <<>>
    ELSE IF At(s, i, old) THEN new \o ReplaceFrom(s, i + Len(old), old, new)
    ELSE <<s[i]>> \o ReplaceFrom(s, i + 1, old, new)

\* The loop of norm_unicode_escapes over the matches.
RECURSIVE EscReplaceAll(_, _)
EscReplaceAll(value, matches) ==
    IF matches = <<>> THEN value
    ELSE EscReplaceAll(
             ReplaceFrom(value, 1, matches[1], <<EscChar(matches[1])>>),
             Tail(matches))

\* norm_unicode_escapes(value)
norm_unicode_escapes(value) == EscReplaceAll(value, EscFindAllFrom(value, 1))

\* 'if dct['property'] == 'font': value = SLASH_RE.sub(SLASH_RE_SUB, value)'
FontSlashSub(property, value) ==
    IF property = Chars("font") THEN SlashSub(value) ELSE value

\* The transforms of Property.from_dict, in the order of the source (the
\* innermost is the first).
NormValue(property, value) ==
    norm_unicode_escapes(
     SpacesSub(
      FontSlashSub(property,
       ShortColorsSub(
        RgbaSub(
         QuoteSub(
          PointZeroSub(
           FloatSub(
            CommaSub(
             ColorSub(value)))))), 1))))

----------------------------------------------------------------------------
(* Exceptions and the results of construction *)

\* An exception: its class and what it carries.
Exception(kind, key, keys, returncode, out, err) ==
    [kind |-> kind, key |-> key, keys |-> keys,
     returncode |-> returncode, out |-> out, err |-> err]

NoError == Exception("none", "", {}, 0, <<>>, <<>>)

\* KeyError(key): d[key] of a dict without the key
KeyError(key) == Exception("KeyError", key, {}, 0, <<>>, <<>>)

\* AssertionError of 'assert dct['type'] == 'declaration', dct['type']'
TypeAssertionError(type) == Exception("AssertionError", type, {}, 0, <<>>, <<>>)

\* AssertionError of _check_keys: it carries (set(d), set(keys))
KeysAssertionError(d) == Exception("AssertionError", "", DOMAIN d, 0, <<>>, <<>>)

\* CalledProcessError(returncode, out, err)
CalledProcessError(returncode, out, err) ==
    Exception("CalledProcessError", "", {}, returncode, out, err)

\* The message CalledProcessError.__init__ passes to ValueError.
CalledProcessErrorMessage(e) ==
    Chars("Unexpected returncode (") \o Chars(ToString(e.returncode))
    \o Chars(")\nstdout:\n") \o e.out \o Chars("\nstderr:\n") \o e.err \o Chars("\n")

\* subprocess.CalledProcessError, raised by subprocess.check_call
CheckCallError(returncode) ==
    Exception("subprocess.CalledProcessError", "", {}, returncode, <<>>, <<>>)

NoValue == <<>>

\* A call that returned val.
Ok(val) == [ok |-> TRUE, val |-> val, exc |-> NoError]
\* A call that raised exc.
Raise(exc) == [ok |-> FALSE, val |-> NoValue, exc |-> exc]

RECURSIVE OkValues(_)
OkValues(results) ==
    IF results = <<>> THEN <<>>
    ELSE (IF results[1].ok THEN <<results[1].val>> ELSE <<>>) \o OkValues(Tail(results))

\* A tuple(...) that leaves out the elements whose construction failed.
Collect_skipping(results) == Ok(OkValues(results))

\* tuple(f(x) for x in xs), given the results of f: the first exception
\* raised ends the iteration.
Collect(results) ==
    IF \E i \in 1..Len(results) : ~results[i].ok
    THEN Raise(results[CHOOSE i \in 1..Len(results) :
                   /\ ~results[i].ok
                   /\ \A j \in 1..(i - 1) : results[j].ok].exc)
    ELSE Ok([i \in 1..Len(results) |-> results[i].val])

\* A _check_keys that accepts every dict.
_check_keys_lenient(d, keys) == TRUE

\* _check_keys(d, keys): the assertion
_check_keys(d, keys) == DOMAIN d \subseteq (keys \cup {"position", "type"})

----------------------------------------------------------------------------
(* The node model: construction *)

\* Property.from_dict(dct)
Property_from_dict(dct) ==
    IF "type" \notin DOMAIN dct THEN Raise(KeyError("type"))
    ELSE IF dct.type # "declaration" THEN Raise(TypeAssertionError(dct.type))
    ELSE IF ~_check_keys(dct, {"property", "value"}) THEN Raise(KeysAssertionError(dct))
    ELSE IF "value" \notin DOMAIN dct THEN Raise(KeyError("value"))
    ELSE IF "property" \notin DOMAIN dct THEN Raise(KeyError("property"))
    ELSE Ok([cls |-> "Property", name |-> dct.property,
             value |-> NormValue(dct.property, dct.value)])

\* Charset.from_dict(dct)
Charset_from_dict(dct) ==
    IF ~_check_keys(dct, {"charset"}) THEN Raise(KeysAssertionError(dct))
    ELSE IF "charset" \notin DOMAIN dct THEN Raise(KeyError("charset"))
    ELSE Ok([cls |-> "Charset", charset |-> dct.charset])

\* Comment.from_dict(dct)
Comment_from_dict(dct) ==
    IF ~_check_keys(dct, {"comment"}) THEN Raise(KeysAssertionError(dct))
    ELSE IF "comment" \notin DOMAIN dct THEN Raise(KeyError("comment"))
    ELSE Ok([cls |-> "Comment", comment |-> dct.comment])

\* Import.from_dict(dct)
Import_from_dict(dct) ==
    IF ~_check_keys(dct, {"import"}) THEN Raise(KeysAssertionError(dct))
    ELSE IF "import" \notin DOMAIN dct THEN Raise(KeyError("import"))
    ELSE Ok([cls |-> "Import", value |-> dct.import])

\* dct.get('vendor', '')
GetVendor(dct) == IF "vendor" \in DOMAIN dct THEN dct.vendor ELSE <<>>

\* tuple(Property.from_dict(property_dict) for property_dict in dct['declarations'])
Properties_from_dicts(declarations) ==
    Collect([i \in 1..Len(declarations) |-> Property_from_dict(declarations[i])])

\* KeyFrame.from_dict(dct), once the properties are built
KeyFrame_new(dct, properties) ==
    IF ~properties.ok THEN properties
    ELSE IF "values" \notin DOMAIN dct THEN Raise(KeyError("values"))
    ELSE Ok([cls |-> "KeyFrame", values |-> Join(Chars(", "), dct.values),
             properties |-> properties.val])

\* KeyFrame.from_dict(dct)
KeyFrame_from_dict(dct) ==
    IF ~_check_keys(dct, {"declarations", "values"}) THEN Raise(KeysAssertionError(dct))
    ELSE IF "declarations" \notin DOMAIN dct THEN Raise(KeyError("declarations"))
    ELSE KeyFrame_new(dct, Properties_from_dicts(dct.declarations))

\* KeyFrames.from_dict(dct), once the keyframes are built
KeyFrames_new(dct, keyframes) ==
    IF ~keyframes.ok THEN keyframes
    ELSE IF "name" \notin DOMAIN dct THEN Raise(KeyError("name"))
    ELSE Ok([cls |-> "KeyFrames", vendor |-> GetVendor(dct),
             name |-> dct.name, keyframes |-> keyframes.val])

\* KeyFrames.from_dict(dct)
KeyFrames_from_dict(dct) ==
    IF ~_check_keys(dct, {"vendor", "name", "keyframes"}) THEN Raise(KeysAssertionError(dct))
    ELSE IF "keyframes" \notin DOMAIN dct THEN Raise(KeyError("keyframes"))
    ELSE KeyFrames_new(dct, Collect([i \in 1..Len(dct.keyframes) |->
                                        KeyFrame_from_dict(dct.keyframes[i])]))

\* Rule.from_dict without the sort of the selectors.
Rule_new_unsorted(selectors, properties) ==
    IF ~properties.ok THEN properties
    ELSE Ok([cls |-> "Rule", selectors |-> Join(Chars(", "), selectors),
             properties |-> properties.val])

\* Rule.from_dict(dct), once the selectors are re-spaced and the properties
\* built
Rule_new(selectors, properties) ==
    IF ~properties.ok THEN properties
    ELSE Ok([cls |-> "Rule", selectors |-> Join(Chars(", "), Sorted(selectors)),
             properties |-> properties.val])

\* Rule.from_dict(dct)
Rule_from_dict(dct) ==
    IF ~_check_keys(dct, {"selectors", "declarations"}) THEN Raise(KeysAssertionError(dct))
    ELSE IF "selectors" \notin DOMAIN dct THEN Raise(KeyError("selectors"))
    ELSE IF "declarations" \notin DOMAIN dct THEN Raise(KeyError("declarations"))
    ELSE Rule_new([i \in 1..Len(dct.selectors) |-> RelationSub(dct.selectors[i])],
                  Properties_from_dicts(dct.declarations))

\* TO_NODE_TYPES: the type tags generic_to_node dispatches on
TO_NODE_TYPES ==
    {"charset", "comment", "document", "import", "keyframes", "media", "rule", "supports"}

RECURSIVE generic_to_node(_)

\* tuple(generic_to_node(node_dict) for node_dict in dct['rules'])
Nodes_from_dicts(node_dicts) ==
    Collect([i \in 1..Len(node_dicts) |-> generic_to_node(node_dicts[i])])

\* Document.from_dict(dct), once the nested nodes are built
Document_new(dct, nodes) ==
    IF ~nodes.ok THEN nodes
    ELSE IF "document" \notin DOMAIN dct THEN Raise(KeyError("document"))
    ELSE Ok([cls |-> "Document", vendor |-> GetVendor(dct),
             name |-> dct.document, rules |-> nodes.val])

\* Document.from_dict(dct)
Document_from_dict(dct) ==
    IF ~_check_keys(dct, {"vendor", "document", "rules"}) THEN Raise(KeysAssertionError(dct))
    ELSE IF "rules" \notin DOMAIN dct THEN Raise(KeyError("rules"))
    ELSE Document_new(dct, Nodes_from_dicts(dct.rules))

\* MediaQuery.from_dict(dct), once the nested nodes are built
MediaQuery_new(media, nodes) ==
    IF ~nodes.ok THEN nodes
    ELSE Ok([cls |-> "MediaQuery", media |-> media, rules |-> nodes.val])

\* MediaQuery.from_dict(dct)
MediaQuery_from_dict(dct) ==
    IF ~_check_keys(dct, {"media", "rules"}) THEN Raise(KeysAssertionError(dct))
    ELSE IF "media" \notin DOMAIN dct THEN Raise(KeyError("media"))
    ELSE IF "rules" \notin DOMAIN dct THEN Raise(KeyError("rules"))
    ELSE MediaQuery_new(CommaSub(dct.media), Nodes_from_dicts(dct.rules))

\* Supports.from_dict(dct), once the nested nodes are built
Supports_new(dct, nodes) ==
    IF ~nodes.ok THEN nodes
    ELSE IF "supports" \notin DOMAIN dct THEN Raise(KeyError("supports"))
    ELSE Ok([cls |-> "Supports", supports |-> dct.supports, rules |-> nodes.val])

\* Supports.from_dict(dct)
Supports_from_dict(dct) ==
    IF ~_check_keys(dct, {"supports", "rules"}) THEN Raise(KeysAssertionError(dct))
    ELSE IF "rules" \notin DOMAIN dct THEN Raise(KeyError("rules"))
    ELSE Supports_new(dct, Nodes_from_dicts(dct.rules))

\* A generic_to_node that takes a node of a type outside TO_NODE_TYPES
\* for an empty comment.
generic_to_node_lenient(node_dict) ==
    IF "type" \notin DOMAIN node_dict THEN Raise(KeyError("type"))
    ELSE CASE node_dict.type = "charset" -> Charset_from_dict(node_dict)
           [] node_dict.type = "comment" -> Comment_from_dict(node_dict)
           [] node_dict.type = "document" -> Document_from_dict(node_dict)
           [] node_dict.type = "import" -> Import_from_dict(node_dict)
           [] node_dict.type = "keyframes" -> KeyFrames_from_dict(node_dict)
           [] node_dict.type = "media" -> MediaQuery_from_dict(node_dict)
           [] node_dict.type = "rule" -> Rule_from_dict(node_dict)
           [] node_dict.type = "supports" -> Supports_from_dict(node_dict)
           [] OTHER -> Ok([cls |-> "Comment", comment |-> <<>>])

\* generic_to_node(node_dict)
generic_to_node(node_dict) ==
    IF "type" \notin DOMAIN node_dict THEN Raise(KeyError("type"))
    ELSE IF node_dict.type \notin TO_NODE_TYPES THEN Raise(KeyError(node_dict.type))
    ELSE CASE node_dict.type = "charset" -> Charset_from_dict(node_dict)
           [] node_dict.type = "comment" -> Comment_from_dict(node_dict)
           [] node_dict.type = "document" -> Document_from_dict(node_dict)
           [] node_dict.type = "import" -> Import_from_dict(node_dict)
           [] node_dict.type = "keyframes" -> KeyFrames_from_dict(node_dict)
           [] node_dict.type = "media" -> MediaQuery_from_dict(node_dict)
           [] node_dict.type = "rule" -> Rule_from_dict(node_dict)
           [] node_dict.type = "supports" -> Supports_from_dict(node_dict)

----------------------------------------------------------------------------
(* The renderer *)

\* Settings(ignore_charset, ignore_comments, ignore_empty_rules)
Settings ==
    [ignore_charset : BOOLEAN, ignore_comments : BOOLEAN, ignore_empty_rules : BOOLEAN]

\* Property.to_text(settings)
Property_to_text(self, s) ==
    Chars("    ") \o self.name \o Chars(": ") \o self.value \o Chars(";\n")

\* ''.join(prop.to_text(settings) for prop in self.properties)
Properties_to_text(properties, s) ==
    Concat([i \in 1..Len(properties) |-> Property_to_text(properties[i], s)])

\* Charset.to_text(settings)
Charset_to_text(self, s) ==
    IF s.ignore_charset THEN <<>>
    ELSE Chars("@charset ") \o self.charset \o Chars(";\n")

\* A Comment.to_text that looks at ignore_charset.
Comment_to_text_by_charset(self, s) ==
    IF s.ignore_charset THEN <<>>
    ELSE Chars("/*") \o self.comment \o Chars("*/\n")

\* Comment.to_text(settings)
Comment_to_text(self, s) ==
    IF s.ignore_comments THEN <<>>
    ELSE Chars("/*") \o self.comment \o Chars("*/\n")

\* Import.to_text(settings)
Import_to_text(self, s) == Chars("@import ") \o self.value \o Chars(";\n")

\* KeyFrame.to_text(settings)
KeyFrame_to_text(self, s) ==
    self.values \o Chars(" {\n") \o Properties_to_text(self.properties, s) \o Chars("}\n")

\* KeyFrames.to_text(settings)
KeyFrames_to_text(self, s) ==
    Chars("@") \o self.vendor \o Chars("keyframes ") \o self.name \o Chars(" {\n")
    \o indent(Concat([i \in 1..Len(self.keyframes) |->
                         KeyFrame_to_text(self.keyframes[i], s)]))
    \o Chars("}\n")

\* A Rule.to_text that never suppresses the rule.
Rule_to_text_always(self, s) ==
    self.selectors \o Chars(" {\n") \o Properties_to_text(self.properties, s) \o Chars("}\n")

\* Rule.to_text(settings)
Rule_to_text(self, s) ==
    IF s.ignore_empty_rules /\ self.properties = <<>> THEN <<>>
    ELSE self.selectors \o Chars(" {\n") \o Properties_to_text(self.properties, s)
         \o Chars("}\n")

RECURSIVE to_text(_, _)

\* A join that takes the rules from the last to the first.
Rules_to_text_reversed(nodes, s) ==
    Concat([i \in 1..Len(nodes) |-> to_text(nodes[Len(nodes) + 1 - i], s)])

\* ''.join(rule.to_text(settings) for rule in rules)
Rules_to_text(nodes, s) == Concat([i \in 1..Len(nodes) |-> to_text(nodes[i], s)])

\* Document.to_text(settings)
Document_to_text(self, s) ==
    Chars("@") \o self.vendor \o Chars("document ") \o self.name \o Chars(" {\n")
    \o indent(Rules_to_text(self.rules, s)) \o Chars("}\n")

\* MediaQuery.to_text(settings)
MediaQuery_to_text(self, s) ==
    Chars("@media ") \o self.media \o Chars(" {\n")
    \o indent(Rules_to_text(self.rules, s)) \o Chars("}\n")

\* Supports.to_text(settings)
Supports_to_text(self, s) ==
    Chars("@supports ") \o self.supports \o Chars(" {\n")
    \o indent(Rules_to_text(self.rules, s)) \o Chars("}\n")

\* node.to_text(settings): the method of the node's class
to_text(node, s) ==
    CASE node.cls = "Charset" -> Charset_to_text(node, s)
      [] node.cls = "Comment" -> Comment_to_text(node, s)
      [] node.cls = "Document" -> Document_to_text(node, s)
      [] node.cls = "Import" -> Import_to_text(node, s)
      [] node.cls = "KeyFrames" -> KeyFrames_to_text(node, s)
      [] node.cls = "MediaQuery" -> MediaQuery_to_text(node, s)
      [] node.cls = "Rule" -> Rule_to_text(node, s)
      [] node.cls = "Supports" -> Supports_to_text(node, s)

----------------------------------------------------------------------------
(* The parser's output: the generic nodes the calls are run on *)

\* Bounds of the model.
MaxSelectors == 3
MaxDeclarations == 2
MaxChildren == 2
MaxDepth == 2
MaxTop == 2

\* The sequences over S of length at most n.
SeqsUpTo(S, n) == UNION {[1..k -> S] : k \in 0..n}

\* The 'position' every node of the parser carries.
Position == "position"

DeclarationDict(property, value) ==
    [type |-> "declaration", position |-> Position, property |-> property, value |-> value]
CommentDict(comment) ==
    [type |-> "comment", position |-> Position, comment |-> comment]
CharsetDict(charset) ==
    [type |-> "charset", position |-> Position, charset |-> charset]
ImportDict(import) ==
    [type |-> "import", position |-> Position, import |-> import]
RuleDict(selectors, declarations) ==
    [type |-> "rule", position |-> Position, selectors |-> selectors,
     declarations |-> declarations]
KeyFrameDict(values, declarations) ==
    [type |-> "keyframe", position |-> Position, values |-> values,
     declarations |-> declarations]
KeyFramesDict(name, keyframes) ==
    [type |-> "keyframes", position |-> Position, name |-> name, keyframes |-> keyframes]
MediaDict(media, children) ==
    [type |-> "media", position |-> Position, media |-> media, rules |-> children]
DocumentDict(document, children) ==
    [type |-> "document", position |-> Position, document |-> document, rules |-> children]
SupportsDict(supports, children) ==
    [type |-> "supports", position |-> Position, supports |-> supports, rules |-> children]
\* @font-face, a node the parser produces and TO_NODE_TYPES does not hold
FontFaceDict(declarations) ==
    [type |-> "font-face", position |-> Position, declarations |-> declarations]

\* A node with a vendor prefix.
WithVendor(dct, vendor) == dct @@ [vendor |-> vendor]
\* A node carrying a field that no node kind expects.
WithExtra(dct) == dct @@ [extra |-> Chars("x")]

SelectorTexts == {Chars("b"), Chars("a>b"), Chars("a b")}
PropertyNames == {Chars("color"), Chars("font")}
ValueTexts == {Chars("red"), Chars("'\\002C'"), Chars("1/2")}

RedDecl == DeclarationDict(Chars("color"), Chars("red"))

\* What the parser puts in a list of declarations.
DeclDicts ==
    {DeclarationDict(p, v) : p \in PropertyNames, v \in ValueTexts}
    \cup {WithExtra(RedDecl), CommentDict(Chars("hi"))}

RedRule == RuleDict(<<Chars("a")>>, <<RedDecl>>)
EmptyRule == RuleDict(<<Chars("a")>>, <<>>)

RuleDicts ==
    {RuleDict(sels, <<RedDecl>>) : sels \in SeqsUpTo(SelectorTexts, MaxSelectors) \ {<<>>}}
    \cup {RuleDict(<<Chars("a")>>, decls) : decls \in SeqsUpTo(DeclDicts, MaxDeclarations)}
    \cup {WithExtra(RedRule), WithExtra(RuleDict(<<Chars("a")>>, <<CommentDict(Chars("hi"))>>))}

KeyFrameDicts ==
    {KeyFrameDict(<<Chars("0%")>>, <<>>),
     KeyFrameDict(<<Chars("0%"), Chars("100%")>>, <<RedDecl>>),
     WithExtra(KeyFrameDict(<<Chars("0%")>>, <<RedDecl>>))}

KeyFramesDicts ==
    LET plain == {KeyFramesDict(Chars("k"), kfs) :
                     kfs \in SeqsUpTo(KeyFrameDicts, MaxChildren)}
    IN  plain \cup {WithVendor(d, Chars("-webkit-")) : d \in plain}
        \cup {WithExtra(KeyFramesDict(Chars("k"), <<>>)),
              WithExtra(KeyFramesDict(Chars("k"),
                                      <<WithExtra(KeyFrameDict(<<Chars("0%")>>, <<>>))>>))}

LeafDicts ==
    {CommentDict(Chars("hi")), CommentDict(Chars("a\nb")),
     WithExtra(CommentDict(Chars("hi"))),
     CharsetDict(Chars("\"utf-8\"")), WithExtra(CharsetDict(Chars("\"utf-8\""))),
     ImportDict(Chars("url(//foo)")), WithExtra(ImportDict(Chars("url(//foo)"))),
     RedDecl, FontFaceDict(<<RedDecl>>), WithExtra(FontFaceDict(<<RedDecl>>))}

\* The nodes nested in the containers of depth 1.
NestedDicts ==
    {RedRule, EmptyRule, WithExtra(RedRule), CommentDict(Chars("a\nb")),
     CharsetDict(Chars("\"utf-8\"")), FontFaceDict(<<RedDecl>>)}

ContainerTypes == {"media", "document", "supports"}

ContainerDict(type, children) ==
    CASE type = "media" -> MediaDict(Chars("print,screen"), children)
      [] type = "document" ->
            WithVendor(DocumentDict(Chars("url-prefix()"), children), Chars("-moz-"))
      [] type = "supports" -> SupportsDict(Chars("(a:b)"), children)

\* node nested in d containers, a media query innermost, then a supports
\* block, and so on.
RECURSIVE Wrap(_, _)
Wrap(d, node) ==
    IF d = 0 THEN node
    ELSE ContainerDict(IF d % 2 = 1 THEN "media" ELSE "supports", <<Wrap(d - 1, node)>>)

\* The nodes nested in the containers of depth d + 1.
Core(d) ==
    IF d = 0 THEN NestedDicts
    ELSE {Wrap(d, RedRule), Wrap(d, FontFaceDict(<<RedDecl>>))}

\* The containers whose deepest child is nested in d containers.
ContainerDicts(d) ==
    {ContainerDict(type, children) :
        type \in ContainerTypes, children \in SeqsUpTo(Core(d - 1), MaxChildren)}
    \cup {WithExtra(ContainerDict(type, <<Wrap(d - 1, FontFaceDict(<<RedDecl>>))>>)) :
             type \in ContainerTypes}
    \cup {DocumentDict(Chars("url-prefix()"), <<Wrap(d - 1, RedRule)>>)}

\* The nodes of a stylesheet.
NodeDicts ==
    LeafDicts \cup RuleDicts \cup KeyFramesDicts
    \cup UNION {ContainerDicts(d) : d \in 1..MaxDepth}

\* The nodes of the stylesheets of more than one node.
SiblingDicts ==
    {RedRule, EmptyRule, CommentDict(Chars("hi")), CharsetDict(Chars("\"utf-8\"")),
     FontFaceDict(<<RedDecl>>), Wrap(1, EmptyRule)}

\* sheet['rules'] of the stylesheets the parser returns.
Sheets ==
    {<<n>> : n \in NodeDicts} \cup SeqsUpTo(SiblingDicts, MaxTop)

\* The exit statuses of the parser process, and what it wrote when it
\* failed.
ReturnCodes == {0, 1}
ParserDiagnostic == Chars("Error: missing '}'")

----------------------------------------------------------------------------
(* format_css *)

NoSettings ==
    [ignore_charset |-> FALSE, ignore_comments |-> FALSE, ignore_empty_rules |-> FALSE]
NoProc == [returncode |-> 0, out |-> <<>>, err |-> <<>>]
NoEnv == [created |-> FALSE, css |-> FALSE]
NoResult == <<"None">>

Init ==
    /\ pc = "idle"
    /\ settings = NoSettings
    /\ installed = FALSE
    /\ nenv = NoEnv
    /\ installs = <<>>
    /\ proc = NoProc
    /\ sheet = <<>>
    /\ rules = <<>>
    /\ result = NoResult
    /\ error = NoError

\* format_css(contents, ignore_charset=..., ignore_comments=..., ignore_empty_rules=...)
\* is called.
Call(s) ==
    /\ pc \in {"idle", "done", "failed"}
    /\ pc' = "called"
    /\ settings' = s
    /\ installs' = <<>>
    /\ proc' = NoProc
    /\ sheet' = <<>>
    /\ rules' = <<>>
    /\ result' = NoResult
    /\ error' = NoError
    /\ UNCHANGED <<installed, nenv>>

\* A require_nodeenv that does not test the marker.
RequireCheck_unconditional ==
    /\ pc = "called"
    /\ pc' = "nodeenv"
    /\ UNCHANGED <<settings, installed, nenv, installs, proc, sheet, rules, result, error>>

\* require_nodeenv: the test of the marker.
RequireCheck ==
    /\ pc = "called"
    /\ pc' = IF installed THEN "required" ELSE "nodeenv"
    /\ UNCHANGED <<settings, installed, nenv, installs, proc, sheet, rules, result, error>>

\* require_nodeenv: check_call of 'python -m nodeenv NENV_PATH --prebuilt'.
InstallNodeenv(returncode) ==
    /\ pc = "nodeenv"
    /\ installs' = Append(installs, "nodeenv")
    /\ IF returncode = 0
       THEN /\ pc' = "npm"
            /\ nenv' = [nenv EXCEPT !.created = TRUE]
            /\ error' = error
       ELSE /\ pc' = "failed"
            /\ nenv' = nenv
            /\ error' = CheckCallError(returncode)
    /\ UNCHANGED <<settings, installed, proc, sheet, rules, result>>

\* A require_nodeenv that goes on after a failed npm install.
InstallCss_unchecked(returncode) ==
    /\ pc = "npm"
    /\ installs' = Append(installs, "npm")
    /\ pc' = "marker"
    /\ nenv' = [nenv EXCEPT !.css = (returncode = 0)]
    /\ UNCHANGED <<settings, installed, proc, sheet, rules, result, error>>

\* require_nodeenv: check_call of '. ACTIVATE && npm install -g css'.
InstallCss(returncode) ==
    /\ pc = "npm"
    /\ installs' = Append(installs, "npm")
    /\ IF returncode = 0
       THEN /\ pc' = "marker"
            /\ nenv' = [nenv EXCEPT !.css = TRUE]
            /\ error' = error
       ELSE /\ pc' = "failed"
            /\ nenv' = nenv
            /\ error' = CheckCallError(returncode)
    /\ UNCHANGED <<settings, installed, proc, sheet, rules, result>>

\* require_nodeenv: open(NENV_PATH/installed, 'w').close()
WriteMarker ==
    /\ pc = "marker"
    /\ installed' = TRUE
    /\ pc' = "required"
    /\ UNCHANGED <<settings, nenv, installs, proc, sheet, rules, result, error>>

\* format_css without the test of the returncode.
Parse_unchecked(returncode, parsed) ==
    /\ pc = "required"
    /\ proc' = [returncode |-> returncode,
                out |-> [stylesheet |-> [rules |-> IF returncode = 0 THEN parsed ELSE <<>>]],
                err |-> IF returncode = 0 THEN <<>> ELSE ParserDiagnostic]
    /\ pc' = "parsed"
    /\ UNCHANGED <<settings, installed, nenv, installs, sheet, rules, result, error>>

\* The parser process: Popen, communicate, and the test of its returncode.
Parse(returncode, parsed) ==
    /\ pc = "required"
    /\ IF returncode # 0
       THEN /\ proc' = [returncode |-> returncode, out |-> <<>>, err |-> ParserDiagnostic]
            /\ error' = CalledProcessError(returncode, <<>>, ParserDiagnostic)
            /\ pc' = "failed"
       ELSE /\ proc' = [returncode |-> 0, out |-> [stylesheet |-> [rules |-> parsed]],
                        err |-> <<>>]
            /\ error' = error
            /\ pc' = "parsed"
    /\ UNCHANGED <<settings, installed, nenv, installs, sheet, rules, result>>

\* sheet = json.loads(out)['stylesheet'] and the construction of the nodes.
Build ==
    /\ pc = "parsed"
    /\ sheet' = proc.out.stylesheet
    /\ \E built \in {Nodes_from_dicts(proc.out.stylesheet.rules)} :
          IF built.ok
          THEN /\ rules' = built.val
               /\ error' = error
               /\ pc' = "built"
          ELSE /\ rules' = rules
               /\ error' = built.exc
               /\ pc' = "failed"
    /\ UNCHANGED <<settings, installed, nenv, installs, proc, result>>

\* A format_css that returns its text without the final character.
Render_stripped ==
    /\ pc = "built"
    /\ \E text \in {Rules_to_text(rules, settings)} :
          result' = SubSeq(text, 1, Len(text) - 1)
    /\ pc' = "done"
    /\ UNCHANGED <<settings, installed, nenv, installs, proc, sheet, rules, error>>

\* return ''.join(rule.to_text(Settings(...)) for rule in rules)
Render ==
    /\ pc = "built"
    /\ result' = Rules_to_text(rules, settings)
    /\ pc' = "done"
    /\ UNCHANGED <<settings, installed, nenv, installs, proc, sheet, rules, error>>

Next ==
    \/ \E s \in Settings : Call(s)
    \/ RequireCheck
    \/ \E returncode \in ReturnCodes : InstallNodeenv(returncode)
    \/ \E returncode \in ReturnCodes : InstallCss(returncode)
    \/ WriteMarker
    \/ \E returncode \in ReturnCodes, parsed \in Sheets : Parse(returncode, parsed)
    \/ Build
    \/ Render

Spec == Init /\ [][Next]_vars

----------------------------------------------------------------------------
(* format_css on the stylesheets of one rule with one declaration, whose     *)
(* value is put together from a few pieces: escapes, spaces, slashes.        *)

MaxTokens == 3

ValueTokens ==
    {<<"\\">>, Chars("0020"), Chars("002F"), Chars("005c"), <<" ">>, <<"/">>, <<"a">>}

\* The values the parser hands over: not empty, and trimmed.
TokenValues ==
    {v \in {Concat(tokens) : tokens \in SeqsUpTo(ValueTokens, MaxTokens)} :
        v # <<>> /\ v[1] # " " /\ v[Len(v)] # " "}

ValueSheets ==
    {<<RuleDict(<<Chars("a")>>, <<DeclarationDict(p, v)>>)>> :
        p \in PropertyNames, v \in TokenValues}

ValueNext ==
    \/ Call(NoSettings)
    \/ RequireCheck
    \/ \E returncode \in ReturnCodes : InstallNodeenv(returncode)
    \/ \E returncode \in ReturnCodes : InstallCss(returncode)
    \/ WriteMarker
    \/ \E returncode \in ReturnCodes, parsed \in ValueSheets : Parse(returncode, parsed)
    \/ Build
    \/ Render

ValueSpec == Init /\ [][ValueNext]_vars

----------------------------------------------------------------------------
(* require_nodeenv called concurrently: the calls share the directory of the *)
(* nodeenv and its marker; pc and error hold the position and the exception  *)
(* of each call, installs the commands run with the call that ran each.      *)

MaxCallers == 2

Callers == 1..MaxCallers

RaceInit ==
    /\ pc = [c \in Callers |-> "called"]
    /\ settings = NoSettings
    /\ installed = FALSE
    /\ nenv = NoEnv
    /\ installs = <<>>
    /\ proc = NoProc
    /\ sheet = <<>>
    /\ rules = <<>>
    /\ result = NoResult
    /\ error = [c \in Callers |-> NoError]

\* require_nodeenv of call c: the test of the marker.
RequireCheckBy(c) ==
    /\ pc[c] = "called"
    /\ pc' = [pc EXCEPT ![c] = IF installed THEN "required" ELSE "nodeenv"]
    /\ UNCHANGED <<settings, installed, nenv, installs, proc, sheet, rules, result, error>>

\* require_nodeenv of call c: check_call of 'python -m nodeenv NENV_PATH --prebuilt'.
InstallNodeenvBy(c, returncode) ==
    /\ pc[c] = "nodeenv"
    /\ installs' = Append(installs, <<c, "nodeenv">>)
    /\ IF returncode = 0
       THEN /\ pc' = [pc EXCEPT ![c] = "npm"]
            /\ nenv' = [nenv EXCEPT !.created = TRUE]
            /\ error' = error
       ELSE /\ pc' = [pc EXCEPT ![c] = "failed"]
            /\ nenv' = nenv
            /\ error' = [error EXCEPT ![c] = CheckCallError(returncode)]
    /\ UNCHANGED <<settings, installed, proc, sheet, rules, result>>

\* require_nodeenv of call c: check_call of '. ACTIVATE && npm install -g css'.
InstallCssBy(c, returncode) ==
    /\ pc[c] = "npm"
    /\ installs' = Append(installs, <<c, "npm">>)
    /\ IF returncode = 0
       THEN /\ pc' = [pc EXCEPT ![c] = "marker"]
            /\ nenv' = [nenv EXCEPT !.css = TRUE]
            /\ error' = error
       ELSE /\ pc' = [pc EXCEPT ![c] = "failed"]
            /\ nenv' = nenv
            /\ error' = [error EXCEPT ![c] = CheckCallError(returncode)]
    /\ UNCHANGED <<settings, installed, proc, sheet, rules, result>>

\* require_nodeenv of call c: open(NENV_PATH/installed, 'w').close()
WriteMarkerBy(c) ==
    /\ pc[c] = "marker"
    /\ installed' = TRUE
    /\ pc' = [pc EXCEPT ![c] = "required"]
    /\ UNCHANGED <<settings, nenv, installs, proc, sheet, rules, result, error>>

RaceNext ==
    \E c \in Callers :
        \/ RequireCheckBy(c)
        \/ \E returncode \in ReturnCodes : InstallNodeenvBy(c, returncode)
        \/ \E returncode \in ReturnCodes : InstallCssBy(c, returncode)
        \/ WriteMarkerBy(c)

RaceSpec == RaceInit /\ [][RaceNext]_vars

----------------------------------------------------------------------------
(* What the claims speak of *)

\* The generic nodes generic_to_node is called on, for the top-level list
\* dicts: the list's own and those nested in containers.
RECURSIVE GenericDicts(_)
GenericDicts(dicts) ==
    UNION {{dicts[i]} \cup
           (IF dicts[i].type \in ContainerTypes /\ "rules" \in DOMAIN dicts[i]
            THEN GenericDicts(dicts[i].rules) ELSE {}) : i \in 1..Len(dicts)}

Range(seq) == {seq[i] : i \in 1..Len(seq)}

\* Every dict a from_dict is called on if nothing fails, with its role:
\* "node" (generic_to_node), "keyframe" (KeyFrame.from_dict), "declaration"
\* (Property.from_dict).
DeclarationsOf(d) ==
    IF "declarations" \in DOMAIN d THEN {<<"declaration", x>> : x \in Range(d.declarations)}
    ELSE {}

AllDicts(dicts) ==
    LET nodes == {d \in GenericDicts(dicts) : d.type \in TO_NODE_TYPES}
        keyframes == UNION {Range(d.keyframes) : d \in {n \in nodes : n.type = "keyframes"}}
    IN  {<<"node", d>> : d \in GenericDicts(dicts)}
        \cup {<<"keyframe", d>> : d \in keyframes}
        \cup UNION {DeclarationsOf(d) : d \in {n \in nodes : n.type = "rule"} \cup keyframes}

\* The from_dict of a dict in its role.
FromDict(role, d) ==
    CASE role = "node" -> generic_to_node(d)
      [] role = "keyframe" -> KeyFrame_from_dict(d)
      [] role = "declaration" -> Property_from_dict(d)

\* The typed nodes of a tree, at every depth, each with the number of
\* containers it is nested in.
RECURSIVE NodesAt(_, _)
NodesAt(nodes, depth) ==
    UNION {{<<depth, nodes[i]>>} \cup
           (CASE nodes[i].cls \in {"Document", "MediaQuery", "Supports"} ->
                     NodesAt(nodes[i].rules, depth + 1)
              [] nodes[i].cls = "KeyFrames" -> NodesAt(nodes[i].keyframes, depth + 1)
              [] nodes[i].cls \in {"Rule", "KeyFrame"} ->
                     {<<depth, p>> : p \in Range(nodes[i].properties)}
              [] OTHER -> {}) : i \in 1..Len(nodes)}

AllNodes(nodes) == {x[2] : x \in NodesAt(nodes, 0)}

\* The text of a typed node of any class.
TextOf(node, s) ==
    CASE node.cls = "Property" -> Property_to_text(node, s)
      [] node.cls = "KeyFrame" -> KeyFrame_to_text(node, s)
      [] OTHER -> to_text(node, s)

\* The parser's output has been read by the call in progress.
Parsed == pc \in {"built", "done"} \/ (pc = "failed" /\ sheet # <<>>)
\* The call in progress has built its nodes.
Built == pc \in {"built", "done"}

\* The permutations of 1..n.
Perms(n) == {p \in [1..n -> 1..n] : \A i, j \in 1..n : p[i] = p[j] => i = j}
Permuted(seq, p) == [k \in 1..Len(seq) |-> seq[p[k]]]

----------------------------------------------------------------------------
(* C1 *)

\* dct's selectors, re-spaced, in the order p, are in lexicographic order.
SortedBy(dct, p) ==
    \A j, k \in 1..Len(dct.selectors) :
        j < k => ~TextLess(RelationSub(dct.selectors[p[k]]), RelationSub(dct.selectors[p[j]]))

\* C1: the selector text of every rule built is its re-spaced selectors in
\* lexicographic order joined with ', ', and the rule with its selectors in
\* any other order builds the same node and renders the same text.
C1_SelectorOrder ==
    Built =>
        \A dct \in {d \in GenericDicts(sheet.rules) : d.type = "rule"} :
            LET built == generic_to_node(dct).val
            IN  /\ \E p \in Perms(Len(dct.selectors)) :
                       /\ SortedBy(dct, p)
                       /\ built.selectors =
                              Join(Chars(", "),
                                   [k \in 1..Len(dct.selectors) |->
                                       RelationSub(dct.selectors[p[k]])])
                /\ built \in AllNodes(rules)
                /\ \A p \in Perms(Len(dct.selectors)) :
                       LET other == generic_to_node(
                                        [dct EXCEPT !.selectors = Permuted(dct.selectors, p)])
                       IN  /\ other.ok
                           /\ other.val = built
                           /\ to_text(other.val, settings) = to_text(built, settings)

\* A rule whose selectors arrive out of order has been formatted.
C1_Witness ==
    /\ pc = "done"
    /\ Len(sheet.rules) = 1
    /\ sheet.rules[1].type = "rule"
    /\ sheet.rules[1].selectors = <<Chars("b"), Chars("a b"), Chars("a>b")>>
    /\ result = Chars("a > b, a b, b {\n    color: red;\n}\n")

----------------------------------------------------------------------------
(* C2 *)

\* C2: when the parser process exits with a non-zero status the call fails
\* with CalledProcessError carrying the returncode, stdout and stderr, and
\* neither builds a node nor returns text.
C2_ParseFailure ==
    proc.returncode # 0 =>
        /\ pc = "failed"
        /\ error.kind = "CalledProcessError"
        /\ error.returncode = proc.returncode
        /\ error.out = proc.out
        /\ error.err = proc.err
        /\ CalledProcessErrorMessage(error) =
               Chars("Unexpected returncode (") \o Chars(ToString(proc.returncode))
               \o Chars(")\nstdout:\n") \o proc.out \o Chars("\nstderr:\n") \o proc.err
               \o Chars("\n")
        /\ sheet = <<>>
        /\ rules = <<>>
        /\ result = NoResult

\* The parser has exited with status 1.
C2_Witness == pc = "failed" /\ proc.returncode = 1 /\ error.err = ParserDiagnostic

----------------------------------------------------------------------------
(* C3 *)

\* C3: if the construction of any node of the parser's output fails, at any
\* position and depth, the call fails with that node's kind of error and
\* returns no text; text is returned only when every node is constructed.
C3_AllOrNothing ==
    Parsed =>
        LET failing == {x \in AllDicts(sheet.rules) : ~FromDict(x[1], x[2]).ok}
        IN  /\ failing # {} =>
                /\ pc = "failed"
                /\ result = NoResult
                /\ rules = <<>>
                /\ \E x \in failing : error = FromDict(x[1], x[2]).exc
            /\ failing = {} =>
                /\ pc \in {"built", "done"}
                /\ error = NoError
                /\ Len(rules) = Len(sheet.rules)
            /\ (pc = "done") = (result # NoResult)

\* A stylesheet whose first node is valid and whose second is not has failed.
C3_Witness ==
    /\ pc = "failed"
    /\ sheet # <<>>
    /\ Len(sheet.rules) = 2
    /\ generic_to_node(sheet.rules[1]).ok
    /\ ~generic_to_node(sheet.rules[2]).ok
    /\ result = NoResult

----------------------------------------------------------------------------
(* C4 *)

\* The children of a container before the k-th are all constructed.
FirstFailure(children, k) == \A j \in 1..(k - 1) : generic_to_node(children[j]).ok

\* C4: generic_to_node of a node whose type is not in TO_NODE_TYPES raises
\* the KeyError of that type, at top level and nested: the container (or the
\* call) whose first failing child it is fails with that same error, and no
\* text is returned.
C4_UnsupportedKind ==
    Parsed =>
        /\ \A d \in GenericDicts(sheet.rules) :
               d.type \notin TO_NODE_TYPES =>
                   /\ generic_to_node(d) = Raise(KeyError(d.type))
                   /\ pc = "failed"
                   /\ rules = <<>>
                   /\ result = NoResult
        /\ \A c \in GenericDicts(sheet.rules) :
               (c.type \in ContainerTypes /\ DOMAIN c \subseteq DOMAIN ContainerDict(c.type, <<>>)) =>
                   \A k \in 1..Len(c.rules) :
                       (c.rules[k].type \notin TO_NODE_TYPES /\ FirstFailure(c.rules, k)) =>
                           generic_to_node(c) = Raise(KeyError(c.rules[k].type))
        /\ \A k \in 1..Len(sheet.rules) :
               (sheet.rules[k].type \notin TO_NODE_TYPES /\ FirstFailure(sheet.rules, k)) =>
                   error = KeyError(sheet.rules[k].type)

\* A @font-face in a media query in a supports block has failed the call.
C4_Witness ==
    /\ pc = "failed"
    /\ sheet # <<>>
    /\ sheet.rules = <<Wrap(2, FontFaceDict(<<RedDecl>>))>>
    /\ error = KeyError("font-face")
    /\ result = NoResult

----------------------------------------------------------------------------
(* C5 *)

\* The fields each kind of node may carry besides position and type.
ExpectedFields(role, type) ==
    CASE role = "declaration" -> {"property", "value"}
      [] role = "keyframe" -> {"declarations", "values"}
      [] type = "charset" -> {"charset"}
      [] type = "comment" -> {"comment"}
      [] type = "document" -> {"vendor", "document", "rules"}
      [] type = "import" -> {"import"}
      [] type = "keyframes" -> {"vendor", "name", "keyframes"}
      [] type = "media" -> {"media", "rules"}
      [] type = "rule" -> {"selectors", "declarations"}
      [] type = "supports" -> {"supports", "rules"}

\* The dicts of the tree that carry a field their kind does not expect, the
\* kind being one from_dict accepts in that role.
Overfull(dicts) ==
    {x \in AllDicts(dicts) :
        /\ x[1] = "node" => x[2].type \in TO_NODE_TYPES
        /\ x[1] = "declaration" => x[2].type = "declaration"
        /\ ~(DOMAIN x[2] \subseteq ExpectedFields(x[1], x[2].type) \cup {"position", "type"})}

\* C5: the from_dict of a dict with a field outside those its kind expects
\* raises the AssertionError of _check_keys for that very dict, whatever its
\* children are (they are not converted first), the call fails and returns
\* nothing, and no node is built from such a dict; when it is the first
\* failing node of the stylesheet the call fails with that error.
C5_FieldSubset ==
    Parsed =>
        /\ \A x \in Overfull(sheet.rules) :
               /\ FromDict(x[1], x[2]) = Raise(KeysAssertionError(x[2]))
               /\ pc = "failed"
               /\ error # NoError
               /\ rules = <<>>
               /\ result = NoResult
        /\ \A k \in 1..Len(sheet.rules) :
               (<<"node", sheet.rules[k]>> \in Overfull(sheet.rules)
                /\ FirstFailure(sheet.rules, k)) =>
                   error = KeysAssertionError(sheet.rules[k])

\* A media query with an unexpected field, whose only child is a node of an
\* unsupported kind, has failed on its own fields.
C5_Witness ==
    /\ pc = "failed"
    /\ sheet # <<>>
    /\ sheet.rules = <<WithExtra(ContainerDict("media", <<FontFaceDict(<<RedDecl>>)>>))>>
    /\ error = KeysAssertionError(sheet.rules[1])
    /\ result = NoResult

----------------------------------------------------------------------------
(* C6 *)

\* The nodes without the rules that have no property, at every depth of the
\* media, document and supports containers.
RECURSIVE StripEmpty(_)
StripEmpty(nodes) ==
    IF nodes = <<>> THEN <<>>
    ELSE (CASE nodes[1].cls = "Rule" /\ nodes[1].properties = <<>> -> <<>>
            [] nodes[1].cls \in {"Document", "MediaQuery", "Supports"} ->
                   <<[nodes[1] EXCEPT !.rules = StripEmpty(nodes[1].rules)]>>
            [] OTHER -> <<nodes[1]>>)
         \o StripEmpty(Tail(nodes))

KeepEmpty(s) == [s EXCEPT !.ignore_empty_rules = FALSE]
DropEmpty(s) == [s EXCEPT !.ignore_empty_rules = TRUE]

\* C6: a Rule renders as '' exactly when ignore_empty_rules is set and it
\* has no property, and as selectors, ' {', its properties and '}'
\* otherwise; a KeyFrame always renders its braces; and with the setting the
\* text of a tree is the text, without it, of the tree with its empty rules
\* removed at every depth.
C6_EmptyRules ==
    Built =>
        /\ \A n \in {m \in AllNodes(rules) : m.cls = "Rule"} :
               \A s \in Settings :
                   /\ (to_text(n, s) = <<>>) = (s.ignore_empty_rules /\ Len(n.properties) = 0)
                   /\ to_text(n, s) # <<>> =>
                          to_text(n, s) =
                              n.selectors \o Chars(" {\n")
                              \o Concat([i \in 1..Len(n.properties) |->
                                            TextOf(n.properties[i], s)])
                              \o Chars("}\n")
        /\ \A n \in {m \in AllNodes(rules) : m.cls = "KeyFrame"} :
               \A s \in Settings :
                   TextOf(n, s) =
                       n.values \o Chars(" {\n")
                       \o Concat([i \in 1..Len(n.properties) |-> TextOf(n.properties[i], s)])
                       \o Chars("}\n")
        /\ Rules_to_text(rules, DropEmpty(settings))
               = Rules_to_text(StripEmpty(rules), KeepEmpty(settings))
        /\ pc = "done" =>
               result = Rules_to_text(IF settings.ignore_empty_rules
                                      THEN StripEmpty(rules) ELSE rules,
                                      KeepEmpty(settings))

\* An empty rule in a media query has been formatted with ignore_empty_rules:
\* the media query is left with an empty body.
C6_Witness ==
    /\ pc = "done"
    /\ settings.ignore_empty_rules
    /\ sheet.rules = <<Wrap(1, EmptyRule)>>
    /\ result = Chars("@media print, screen {\n\n}\n")

----------------------------------------------------------------------------
(* C7 *)

\* The settings that the text of a node of class cls, a class that holds no
\* node of another kind than properties and keyframes, may depend on.
GoverningSettings(cls) ==
    CASE cls = "Comment" -> {"ignore_comments"}
      [] cls = "Charset" -> {"ignore_charset"}
      [] cls = "Rule" -> {"ignore_empty_rules"}
      [] cls \in {"Import", "Property", "KeyFrame", "KeyFrames"} -> {}

\* s with every option that does not govern cls unset.
Governing(s, cls) ==
    [o \in DOMAIN s |-> s[o] /\ o \in GoverningSettings(cls)]

\* C7: a Comment renders as '' exactly when ignore_comments is set, a
\* Charset exactly when ignore_charset is set, and the text of a node is its
\* text with the options that do not govern its class unset, so that a
\* change of one of those never changes it.
C7_Independent ==
    Built =>
        \A n \in {m \in AllNodes(rules) :
                    m.cls \notin {"Document", "MediaQuery", "Supports"}} :
            \A s \in Settings :
                /\ n.cls = "Comment" =>
                       TextOf(n, s) = IF s.ignore_comments THEN <<>>
                                      ELSE Chars("/*") \o n.comment \o Chars("*/\n")
                /\ n.cls = "Charset" =>
                       TextOf(n, s) = IF s.ignore_charset THEN <<>>
                                      ELSE Chars("@charset ") \o n.charset \o Chars(";\n")
                /\ Governing(s, n.cls) \in Settings
                /\ TextOf(n, s) = TextOf(n, Governing(s, n.cls))

\* A charset and a comment have been formatted with ignore_charset and
\* without ignore_comments: the comment alone is in the text.
C7_Witness ==
    /\ pc = "done"
    /\ settings = [ignore_charset |-> TRUE, ignore_comments |-> FALSE,
                   ignore_empty_rules |-> TRUE]
    /\ sheet.rules = <<CharsetDict(Chars("\"utf-8\"")), CommentDict(Chars("hi"))>>
    /\ result = Chars("/*hi*/\n")

----------------------------------------------------------------------------
(* C8 *)

\* The characters lo..hi of text, with four spaces put before each one that
\* starts a line.
RECURSIVE PrefixSpan(_, _, _)
PrefixSpan(text, lo, hi) ==
    IF lo > hi THEN <<>>
    ELSE IF lo = hi
         THEN (IF lo = 1 \/ text[lo - 1] = "\n" THEN <<" ", " ", " ", " ">> ELSE <<>>)
              \o <<text[lo]>>
         ELSE PrefixSpan(text, lo, (lo + hi) \div 2)
              \o PrefixSpan(text, (lo + hi) \div 2 + 1, hi)

\* text with every line prefixed k times with four spaces.
RECURSIVE Deeper(_, _)
Deeper(text, k) ==
    IF k = 0 THEN text ELSE Deeper(PrefixSpan(text, 1, Len(text)), k - 1)

\* part is in whole, from the start of a line on.
OccursAtLineStart(part, whole) ==
    \E off \in 0..(Len(whole) - Len(part)) :
        /\ off = 0 \/ whole[off] = "\n"
        /\ SubSeq(whole, off + 1, off + Len(part)) = part

\* C8: the text of a node nested in k containers is, in the text of the
\* stylesheet, its text at top level with every line prefixed with 4 * k
\* spaces.
C8_Indentation ==
    Built =>
        /\ \A x \in NodesAt(rules, 0) :
               OccursAtLineStart(Deeper(TextOf(x[2], settings), x[1]),
                                 Rules_to_text(rules, settings))
        /\ pc = "done" => result = Rules_to_text(rules, settings)

\* A rule in a media query in a supports block has been formatted: its
\* declaration is indented 12 spaces.
C8_Witness ==
    /\ pc = "done"
    /\ sheet.rules = <<Wrap(2, RedRule)>>
    /\ <<2, [cls |-> "Property", name |-> Chars("color"), value |-> Chars("red")]>>
           \in NodesAt(rules, 0)
    /\ OccursAtLineStart(Chars("            color: red;\n"), result)
    /\ result = Chars("@supports (a:b) {\n    @media print, screen {\n        a {\n")
                 \o Chars("            color: red;\n        }\n    }\n}\n")

----------------------------------------------------------------------------
(* C9 *)

\* The options make node render as ''.
Suppressed(node, s) ==
    \/ node.cls = "Comment" /\ s.ignore_comments
    \/ node.cls = "Charset" /\ s.ignore_charset
    \/ node.cls = "Rule" /\ s.ignore_empty_rules /\ Len(node.properties) = 0

\* C9 as stated: the text returned ends with a newline.
C9_AlwaysNewline ==
    pc = "done" => result # <<>> /\ result[Len(result)] = "\n"

\* C9: the text returned is '' exactly when every top-level node is
\* suppressed by the options (or there is none), and ends with a newline
\* otherwise.
C9_TrailingNewline ==
    pc = "done" =>
        /\ (result = <<>>) = (\A i \in 1..Len(rules) : Suppressed(rules[i], settings))
        /\ result # <<>> => result[Len(result)] = "\n"

\* A rule followed by a suppressed empty rule has been formatted: the text
\* ends with the newline of the first.
C9_Witness ==
    /\ pc = "done"
    /\ settings.ignore_empty_rules
    /\ sheet.rules = <<RedRule, EmptyRule>>
    /\ result = Chars("a {\n    color: red;\n}\n")

----------------------------------------------------------------------------
(* C10 *)

\* C10: the value of every property built is left unchanged by the
\* normalization of Property.from_dict, as it is when the text returned is
\* formatted again.
C10_Stable ==
    Built =>
        \A p \in {n \in AllNodes(rules) : n.cls = "Property"} :
            NormValue(p.name, p.value) = p.value

----------------------------------------------------------------------------
(* C11 *)

\* UNICODE_ESC_RE replaced match by match from the left, each match,
\* trailing whitespace included, by the character of its code point.
RECURSIVE EscSubFrom(_, _)
EscSubFrom(s, i) ==
    IF i > Len(s) THEN <<>>
    ELSE IF EscMatch(s, i)
         THEN <<EscChar(SubSeq(s, i, i + 4))>> \o EscSubFrom(s, SkipSpace(s, i + 5))
    ELSE <<s[i]>> \o EscSubFrom(s, i + 1)

\* The values of the declarations of the one rule of the stylesheet.
DeclaredValues ==
    {sheet.rules[1].declarations[i].value : i \in 1..Len(sheet.rules[1].declarations)}

\* C11: norm_unicode_escapes applied to its own result changes nothing, and
\* its result is the value with every escape, trailing whitespace included,
\* replaced by the character of its code point.
C11_EscapesIdempotent ==
    Parsed =>
        \A v \in DeclaredValues :
            /\ norm_unicode_escapes(norm_unicode_escapes(v)) = norm_unicode_escapes(v)
            /\ norm_unicode_escapes(v) = EscSubFrom(v, 1)

----------------------------------------------------------------------------
(* C12 *)

\* Every '/' of v has exactly one space on each side.
SlashSpaced(v) ==
    \A i \in 1..Len(v) :
        v[i] = "/" =>
            /\ i > 1 /\ v[i - 1] = " " /\ (i > 2 => v[i - 2] # " ")
            /\ i < Len(v) /\ v[i + 1] = " " /\ (i + 2 <= Len(v) => v[i + 2] # " ")

\* The transforms of Property.from_dict but that of the slashes.
UnslashedValue(value) ==
    norm_unicode_escapes(
     SpacesSub(
      ShortColorsSub(
       RgbaSub(QuoteSub(PointZeroSub(FloatSub(CommaSub(ColorSub(value)))))), 1)))

\* C12: in the value built for a 'font' declaration every '/' has exactly
\* one space on each side, and the value built for a declaration of any
\* other property is the one the transforms give without the slash rule.
C12_FontSlashOnly ==
    Built =>
        \A i \in 1..Len(sheet.rules[1].declarations) :
            /\ sheet.rules[1].declarations[i].property = Chars("font") =>
                   SlashSpaced(rules[1].properties[i].value)
            /\ sheet.rules[1].declarations[i].property # Chars("font") =>
                   rules[1].properties[i].value =
                       UnslashedValue(sheet.rules[1].declarations[i].value)

----------------------------------------------------------------------------
(* C13 *)

\* Where require_nodeenv is, the marker and the install commands run so far
\* by the call agree.
InstallProgress ==
    /\ pc = "nodeenv" => ~installed /\ installs = <<>>
    /\ pc = "npm" => ~installed /\ installs = <<"nodeenv">>
    /\ pc = "marker" => ~installed /\ installs = <<"nodeenv", "npm">>
    /\ pc \in {"required", "parsed", "built", "done"} =>
           installed /\ installs \in {<<>>, <<"nodeenv", "npm">>}

\* The steps of require_nodeenv: with the marker it returns at once, without
\* it it starts the installation, and the marker is only created after the
\* two commands, as the call returns.
InstallSteps ==
    /\ (pc = "called" /\ installed) => (pc' = "required" /\ installs' = <<>>)
    /\ (pc = "called" /\ ~installed) => (pc' = "nodeenv" /\ installs' = <<>>)
    /\ installed' # installed =>
           /\ pc = "marker" /\ installs = <<"nodeenv", "npm">>
           /\ installed' /\ pc' = "required" /\ installs' = installs

\* C13: require_nodeenv runs no install command when the marker exists;
\* when it does not, it runs the creation of the nodeenv, then the npm
\* install, and only then creates the marker, which exists when it returns.
C13_InstallOnce == []InstallProgress /\ [][InstallSteps]_vars

\* require_nodeenv has returned after running both commands and creating
\* the marker.
C13_Witness ==
    pc = "required" /\ installed /\ installs = <<"nodeenv", "npm">> /\ nenv.created /\ nenv.css

----------------------------------------------------------------------------
(* C17 *)

\* A call failed by an install command has run the command that failed last,
\* has neither created the marker nor started the parser, and can be made
\* again; the marker is only there with both commands done.
InstallFailure ==
    /\ (pc = "failed" /\ error.kind = "subprocess.CalledProcessError") =>
           /\ error.returncode # 0
           /\ installs \in {<<"nodeenv">>, <<"nodeenv", "npm">>}
           /\ ~installed
           /\ proc = NoProc /\ sheet = <<>> /\ rules = <<>> /\ result = NoResult
           /\ ENABLED Call(settings)
    /\ installed => nenv.created /\ nenv.css

\* A failing command ends the call with its error and without the marker,
\* and a call made without the marker starts the installation.
FailureSteps ==
    /\ (pc \in {"nodeenv", "npm"} /\ error' # error) =>
           /\ pc' = "failed"
           /\ error'.kind = "subprocess.CalledProcessError"
           /\ ~installed'
    /\ (pc \in {"nodeenv", "npm"} /\ pc' = "failed") => error' # NoError
    /\ (pc = "called" /\ ~installed) => pc' = "nodeenv"

\* C17: when an install command fails, the call fails with the command's
\* error, the marker is not created, the marker never exists without both
\* commands having succeeded, and the next call installs again.
C17_InstallFailure == []InstallFailure /\ [][FailureSteps]_vars

\* The npm install has failed after the nodeenv was created: no marker.
C17_Witness ==
    /\ pc = "failed"
    /\ error = CheckCallError(1)
    /\ installs = <<"nodeenv", "npm">>
    /\ nenv.created /\ ~nenv.css
    /\ ~installed

----------------------------------------------------------------------------
(* C14 *)

\* C14: of the calls of require_nodeenv racing from a directory without the
\* marker, once the marker exists the nodeenv is created with css installed
\* in it, and no call has an install command left to run.
C14_RaceSafe ==
    installed =>
        /\ nenv.created /\ nenv.css
        /\ \A c \in Callers : pc[c] \notin {"nodeenv", "npm"}

----------------------------------------------------------------------------
(* C15 *)

\* The class TO_NODE_TYPES, KeyFrame.from_dict and Property.from_dict give
\* to a dict of a type.
ClassOf(type) ==
    CASE type = "charset" -> "Charset"
      [] type = "comment" -> "Comment"
      [] type = "declaration" -> "Property"
      [] type = "document" -> "Document"
      [] type = "import" -> "Import"
      [] type = "keyframe" -> "KeyFrame"
      [] type = "keyframes" -> "KeyFrames"
      [] type = "media" -> "MediaQuery"
      [] type = "rule" -> "Rule"
      [] type = "supports" -> "Supports"

\* The typed nodes stand where the dicts they were built from stand: as
\* many, the k-th of the class of the k-th dict and with its content, and so
\* for the children, the keyframes and the declarations under them.
RECURSIVE SameOrder(_, _)
SameOrder(dicts, nodes) ==
    /\ Len(nodes) = Len(dicts)
    /\ \A k \in 1..Len(dicts) :
          /\ nodes[k].cls = ClassOf(dicts[k].type)
          /\ CASE dicts[k].type \in ContainerTypes ->
                     SameOrder(dicts[k].rules, nodes[k].rules)
               [] dicts[k].type = "keyframes" ->
                     SameOrder(dicts[k].keyframes, nodes[k].keyframes)
               [] dicts[k].type \in {"rule", "keyframe"} ->
                     SameOrder(dicts[k].declarations, nodes[k].properties)
               [] dicts[k].type = "declaration" ->
                     /\ nodes[k].name = dicts[k].property
                     /\ nodes[k].value = NormValue(dicts[k].property, dicts[k].value)
               [] OTHER -> nodes[k] = generic_to_node(dicts[k]).val

\* The number of characters before the k-th of the pieces laid end to end.
RECURSIVE Offset(_, _)
Offset(pieces, k) ==
    IF k = 1 THEN 0 ELSE Offset(pieces, k - 1) + Len(pieces[k - 1])

\* text is the pieces laid end to end, the first piece first.
LaidInOrder(text, pieces) ==
    /\ Len(text) = Offset(pieces, Len(pieces) + 1)
    /\ \A k \in 1..Len(pieces) :
          SubSeq(text, Offset(pieces, k) + 1, Offset(pieces, k + 1)) = pieces[k]

\* What a node's text holds between its first line and its closing "}\n".
Body(text) == SubSeq(text, LineEnd(text, 1) + 1, Len(text) - 2)

\* A nested node's text as its container holds it: indented, and nothing
\* for a node that renders as nothing.
Nested(text) == IF text = <<>> THEN <<>> ELSE indent(text)

\* The texts a node's text is made of: those of its children, keyframes or
\* declarations, in the node's order.
Pieces(node, s) ==
    CASE node.cls \in {"Document", "MediaQuery", "Supports"} ->
             [k \in 1..Len(node.rules) |-> Nested(to_text(node.rules[k], s))]
      [] node.cls = "KeyFrames" ->
             [k \in 1..Len(node.keyframes) |->
                 Nested(KeyFrame_to_text(node.keyframes[k], s))]
      [] node.cls \in {"Rule", "KeyFrame"} ->
             [k \in 1..Len(node.properties) |-> Property_to_text(node.properties[k], s)]

\* What indent makes of a block in which nothing is rendered.
Hollow(node, text) ==
    /\ node.cls \notin {"Rule", "KeyFrame"}
    /\ text = Chars("\n")

\* The text of every node that has one is its first line, the texts of what
\* it holds in the node's order, and "}\n"; a block none of whose nodes is
\* rendered holds an empty line.
NestedInOrder(nodes, s) ==
    \A n \in {x \in AllNodes(nodes) : x.cls \notin {"Charset", "Comment", "Import", "Property"}} :
        TextOf(n, s) # <<>> =>
            /\ IF Offset(Pieces(n, s), Len(Pieces(n, s)) + 1) = 0
               THEN Body(TextOf(n, s)) = <<>> \/ Hollow(n, Body(TextOf(n, s)))
               ELSE LaidInOrder(Body(TextOf(n, s)), Pieces(n, s))
            /\ At(TextOf(n, s), Len(TextOf(n, s)) - 1, Chars("}\n"))

\* C15: the nodes, as built, stand in the order of the parser's output at
\* every level, declarations included, and the text returned is the text of the
\* first top-level node, then of the second, and so on, each node's own text
\* holding those of its children or declarations in their order.
C15_InputOrder ==
    /\ pc = "built" => SameOrder(sheet.rules, rules)
    /\ pc = "done" =>
           /\ LaidInOrder(result, [k \in 1..Len(rules) |-> to_text(rules[k], settings)])
           /\ NestedInOrder(rules, settings)

\* A comment before a rule is rendered before it.
C15_Witness ==
    /\ pc = "done"
    /\ settings = NoSettings
    /\ sheet.rules = <<CommentDict(Chars("hi")), RedRule>>
    /\ result = Chars("/*hi*/\na {\n    color: red;\n}\n")

----------------------------------------------------------------------------
(* C16 *)

\* v holds two space characters in a row.
SpaceRun(v) == \E i \in 1..(Len(v) - 1) : v[i] = " " /\ v[i + 1] = " "

\* C16: the value of every Property built from a declaration holds no two
\* space characters in a row.
C16_SingleSpaces ==
    Built =>
        \A i \in 1..Len(rules[1].properties) : ~SpaceRun(rules[1].properties[i].value)

====
